---- MODULE Spec2Model ----
(***************************************************************************)
(* A model of the OCR post-processing scripts:                             *)
(*   remove_furigana.py      main(), process_full_workflow(),              *)
(*                           generate_rag_json_only() and their helpers    *)
(*   remove_ocr_textlayer.py rebuild_from_images()                         *)
(*                                                                         *)
(* Conventions.                                                            *)
(*  - A JSON object is a function whose DOMAIN is the set of keys present. *)
(*  - None, [] and a missing list are all <<>>; None and "" are both "".   *)
(*    The code only ever tests these values for truthiness, so the         *)
(*    conflation loses nothing.                                            *)
(*  - Python indexes from 0, TLA+ from 1: polygon[6], polygon[7] of the    *)
(*    code are polygon[7], polygon[8] here, and the y coordinates (odd     *)
(*    0-based indices) sit at the even 1-based indices.                    *)
(*  - Heights are integers.  The cutoff is a float in the code; here it    *)
(*    is the exact rational cutoff * Scale kept as an integer, and a       *)
(*    height h is compared as h * Scale >= cutoff.  No height of the       *)
(*    inputs below equals a non-zero cutoff exactly, so the rounding of    *)
(*    the floating-point product cannot change a comparison.               *)
(***************************************************************************)
EXTENDS Integers, Sequences, FiniteSets, TLC

VARIABLES
    \* ---- the environment main() of remove_furigana.py runs in
    input_dir_exists,      \* --input_dir names an existing directory
    dir_pairs,             \* the (pdf, json) pairs present in it, in glob order
    user_choice,           \* the answer to the furigana prompt
    font_path_given,       \* --font_path was passed
    font_is_file,          \* the font file that is looked up exists
    \* ---- main()
    pc,                    \* position in main()
    file_pairs,
    all_lines,
    global_height_cutoff,  \* times Scale
    k,                     \* index of the pair a loop of main() is at
    exit_code,             \* -1 while running
    exit_reason,           \* which exit main() took
    started,               \* indexes of the pairs whose processing was started
    failed,                \* indexes of the pairs whose processing raised
    \* ---- the frame of process_full_workflow / generate_rag_json_only
    stage,                 \* position in the function, "idle" outside it
    height_cutoff,         \* the parameter, times Scale
    original_doc,
    clean_base_doc,
    exc,                   \* an exception is propagating
    pages_data,
    scale_factor,
    i,                     \* page loop index (1-based)
    main_text_lines,       \* of the page last processed
    content_chunks,        \* rag_output["content_chunks"]
    out_pdf,               \* the document written to pdf_out_path, <<>> if none
    out_rag,               \* the chunks written to text_out_path, <<>> if none
    \* ---- rebuild_from_images of remove_ocr_textlayer.py
    rb_pc,
    create_backup,
    fs_pdf,                \* content of the file at pdf_path
    fs_bak,                \* content of the .bak.pdf file, "absent" if none
    fs_tmp,                \* content of the .tmp.pdf file, "absent" if none
    rb_original_doc,
    rb_new_doc,
    rb_outcome

envVars  == <<input_dir_exists, dir_pairs, user_choice, font_path_given, font_is_file>>
mainVars == <<pc, file_pairs, all_lines, global_height_cutoff, k, exit_code,
              exit_reason, started, failed>>
frameVars == <<stage, height_cutoff, original_doc, clean_base_doc, exc, pages_data,
               scale_factor, i, main_text_lines, content_chunks, out_pdf, out_rag>>
rbVars   == <<rb_pc, create_backup, fs_pdf, fs_bak, fs_tmp, rb_original_doc,
              rb_new_doc, rb_outcome>>
vars     == <<envVars, mainVars, frameVars, rbVars>>

(***************************************************************************)
(* Bounds of the model and the program's configuration constants.          *)
(***************************************************************************)
MaxDocs     == 2    \* pairs in a batch
MaxPages    == 2    \* OCR pages of a document
MaxPdfPages == 2    \* pages of an original PDF

FURIGANA_HEIGHT_THRESHOLD_PERCENT == 70
MAIN_TEXT_BENCHMARK_PERCENTILE    == 90
Scale == 100 * 100

(***************************************************************************)
(* Generic helpers.                                                        *)
(***************************************************************************)
Get(item, key, default) == IF key \in DOMAIN item THEN item[key] ELSE default

SetMax(S) == CHOOSE x \in S : \A y \in S : y <= x
SetMin(S) == CHOOSE x \in S : \A y \in S : x <= y

\* Concat and Join split their argument in halves, so that the depth of the
\* recursion is the logarithm of its length.
RECURSIVE Concat(_)
Concat(ss) ==
    IF ss = <<>> THEN <<>>
    ELSE IF Len(ss) = 1 THEN ss[1]
    ELSE LET h == Len(ss) \div 2
         IN  Concat(SubSeq(ss, 1, h)) \o Concat(SubSeq(ss, h + 1, Len(ss)))

RECURSIVE Join(_, _)
\* sep.join(strs)
Join(sep, strs) ==
    IF strs = <<>> THEN ""
    ELSE IF Len(strs) = 1 THEN strs[1]
    ELSE LET h == Len(strs) \div 2
         IN  Join(sep, SubSeq(strs, 1, h)) \o sep \o Join(sep, SubSeq(strs, h + 1, Len(strs)))

\* the values of a in ascending order: position j holds the value v with
\* fewer than j elements below it and at least j elements not above it
Sorted(a) ==
    LET Below(v)   == Cardinality({n \in 1..Len(a) : a[n] < v})
        UpTo(v)    == Cardinality({n \in 1..Len(a) : a[n] <= v})
        Values     == {a[n] : n \in 1..Len(a)}
    IN  [j \in 1..Len(a) |-> CHOOSE v \in Values : Below(v) < j /\ j <= UpTo(v)]

(***************************************************************************)
(* Helper functions of remove_furigana.py.                                 *)
(***************************************************************************)
get_polygon_height(polygon) ==
    IF polygon = <<>> \/ Len(polygon) < 8 THEN 0
    ELSE LET y_coords == {polygon[j] : j \in {n \in 1..Len(polygon) : n % 2 = 0}}
         IN  SetMax(y_coords) - SetMin(y_coords)

get_pages_from_json(data) ==
    IF "pages" \in DOMAIN data /\ data["pages"] # <<>> THEN data["pages"]
    ELSE IF /\ "analyzeResult" \in DOMAIN data
            /\ data["analyzeResult"].isdict
            /\ "pages" \in DOMAIN data["analyzeResult"].d
         THEN data["analyzeResult"].d["pages"]
    ELSE IF "readResults" \in DOMAIN data /\ data["readResults"] # <<>>
         THEN data["readResults"]
    ELSE <<>>

get_item_poly(item) ==
    IF Get(item, "polygon", <<>>) # <<>> THEN item["polygon"]
    ELSE Get(item, "boundingBox", <<>>)

get_item_text(item) ==
    IF Get(item, "content", "") # "" THEN item["content"]
    ELSE Get(item, "text", "")

(***************************************************************************)
(* Calibration (main, lines 170-179).  np.percentile(a, q) with its        *)
(* default linear interpolation: the virtual index is q/100 * (n-1); the   *)
(* result is a[lo] + frac * (a[lo+1] - a[lo]) over the sorted values.      *)
(* percentile returns 100 times that value, an integer.                    *)
(***************************************************************************)
LineHeights(lines) ==
    [j \in 1..Len(lines) |-> get_polygon_height(get_item_poly(lines[j]))]

\* all_heights[all_heights > 0]
PositiveOnly(heights) == SelectSeq(heights, LAMBDA h : h > 0)

PercentileNearestHigher(a, q) ==
    LET s   == Sorted(a)
        pos == q * (Len(a) - 1)
        hi  == IF pos % 100 = 0 THEN pos \div 100 ELSE (pos \div 100) + 1
    IN  100 * s[hi + 1]

percentile(a, q) ==
    LET s   == Sorted(a)
        pos == q * (Len(a) - 1)          \* virtual index, in hundredths
        lo  == pos \div 100
        rem == pos % 100
    IN  IF rem = 0 THEN 100 * s[lo + 1]
        ELSE 100 * s[lo + 1] + rem * (s[lo + 2] - s[lo + 1])

\* global_height_cutoff * Scale, from the pooled lines
Calibrate(lines) ==
    LET all_heights == PositiveOnly(LineHeights(lines))
    IN  IF Len(all_heights) > 0
        THEN percentile(all_heights, MAIN_TEXT_BENCHMARK_PERCENTILE)
                 * FURIGANA_HEIGHT_THRESHOLD_PERCENT
        ELSE 0

(***************************************************************************)
(* One iteration of the page loop of process_full_workflow (lines 74-89).  *)
(***************************************************************************)
IsMainTextStrict(line, cutoff) ==
    get_polygon_height(get_item_poly(line)) * Scale > cutoff

\* line 74: get_polygon_height(get_item_poly(line)) >= height_cutoff
IsMainText(line, cutoff) ==
    get_polygon_height(get_item_poly(line)) * Scale >= cutoff

MainTextLines(page_data, cutoff) ==
    SelectSeq(Get(page_data, "lines", <<>>), LAMBDA line : IsMainText(line, cutoff))

\* line 76
PageTextForRag(lines) ==
    Join("\n", SelectSeq([j \in 1..Len(lines) |-> get_item_text(lines[j])],
                         LAMBDA t : t # ""))

AppendChunkAlways(chunks, page_num, idx, text) ==
    Append(chunks, [page_number |-> page_num, type |-> "page_content",
                    content |-> text, idx |-> idx])

\* lines 77-78 and 112-113; idx is the position of the page in pages_data,
\* kept beside the fields the code writes so that page order can be stated
AppendChunk(chunks, page_num, idx, text) ==
    IF text # ""
    THEN Append(chunks, [page_number |-> page_num, type |-> "page_content",
                         content |-> text, idx |-> idx])
    ELSE chunks

\* line 84: word.get("span", {}).get("offset", -1)
WordStart(word) ==
    IF "span" \in DOMAIN word THEN Get(word["span"], "offset", -1) ELSE -1

InSpanClosed(word_start, line_span) ==
    /\ word_start >= line_span["offset"]
    /\ word_start <= line_span["offset"] + line_span["length"]

\* lines 82 and 85
InSpan(word_start, line_span) ==
    /\ word_start >= line_span["offset"]
    /\ word_start < line_span["offset"] + line_span["length"]

\* lines 86-89 for one word: the insert_text calls it causes.  w is the
\* position of the word in page_data["words"], kept to identify the word.
InsertWord(word, w, scale) ==
    LET word_poly == get_item_poly(word)
        word_text == get_item_text(word)
    IN  IF word_poly = <<>> \/ word_text = "" THEN <<>>
        ELSE << [point |-> <<word_poly[7] * scale, word_poly[8] * scale>>,
                 text  |-> word_text,
                 word  |-> w] >>

\* lines 80-89: the insert_text calls of one page, in call order
PageInserts(page_data, lines, scale) ==
    LET words == Get(page_data, "words", <<>>)
        ForSpan(line_span) ==
            Concat([w \in 1..Len(words) |->
                      IF InSpan(WordStart(words[w]), line_span)
                      THEN InsertWord(words[w], w, scale)
                      ELSE <<>>])
        ForLine(line) ==
            LET spans == Get(line, "spans", <<>>)
            IN  Concat([b \in 1..Len(spans) |-> ForSpan(spans[b])])
    IN  Concat([a \in 1..Len(lines) |-> ForLine(lines[a])])

\* line 64: the one scale factor of the document
ScaleFactor(pages) ==
    IF Get(pages[1], "unit", "") = "inch" THEN 72 ELSE 1

(***************************************************************************)
(* One iteration of the page loop of generate_rag_json_only (111-113).     *)
(***************************************************************************)
\* line 111
PageParas(page_data) ==
    LET paras == Get(page_data, "paragraphs", <<>>)
    IN  SelectSeq([j \in 1..Len(paras) |-> get_item_text(paras[j])],
                  LAMBDA t : t # "")

\* lines 112-113: the chunk is appended when page_paras is a non-empty list
AppendParaChunk(chunks, page_data, idx) ==
    LET page_paras == PageParas(page_data)
    IN  IF page_paras # <<>>
        THEN Append(chunks, [page_number |-> Get(page_data, "pageNumber", 0),
                             type |-> "page_content",
                             content |-> Join("\n\n", page_paras), idx |-> idx])
        ELSE chunks

(***************************************************************************)
(* The inputs.  Lines, words and pages are drawn from samples that cover   *)
(* both field-name conventions, absent fields, degenerate polygons and     *)
(* words on both boundaries of a line span.  Word polygons are the eight   *)
(* numbers the OCR service emits, or absent.                               *)
(***************************************************************************)
Poly(h)    == <<0, 0, 5, 0, 5, h, 0, h>>
Span(o, n) == [offset |-> o, length |-> n]

LineTall   == [polygon |-> Poly(20), content |-> "AB", spans |-> <<Span(0, 2)>>]
LineSmall  == [boundingBox |-> Poly(10), text |-> "c", spans |-> <<Span(2, 1)>>]
LineNoPoly == [content |-> "d", spans |-> <<Span(3, 1)>>]
LineShort  == [polygon |-> <<0, 0, 5, 9>>, content |-> "", text |-> "e",
               spans |-> <<Span(4, 1)>>]
LineNoText == [polygon |-> Poly(20), spans |-> <<Span(5, 1), Span(7, 1)>>]
LineFlat   == [polygon |-> Poly(0), content |-> "f"]

WordPoly(o)   == <<o + 1, 1, o + 2, 1, o + 2, 2, o + 1, 2>>
Word(o, t)    == [polygon |-> WordPoly(o), content |-> t, span |-> Span(o, 1)]
WordBB(o, t)  == [boundingBox |-> WordPoly(o), text |-> t, span |-> Span(o, 1)]
WordNoPoly(o) == [content |-> "x", span |-> Span(o, 1)]
WordNoText(o) == [polygon |-> WordPoly(o), span |-> Span(o, 1)]
WordNoSpan    == [polygon |-> WordPoly(9), content |-> "z"]

PageA == [pageNumber |-> 1, unit |-> "inch",
          lines |-> <<LineTall, LineSmall>>,
          words |-> <<Word(0, "A"), Word(1, "B"), WordBB(2, "c"), WordNoSpan>>,
          paragraphs |-> <<[content |-> "AB"], [text |-> "c"]>>]
PageB == [pageNumber |-> 2, unit |-> "pixel",
          lines |-> <<LineSmall, LineNoText, LineNoPoly>>,
          words |-> <<WordBB(2, "c"), Word(3, "d"), WordNoPoly(5), WordNoText(7),
                      Word(6, "g"), Word(7, "h")>>,
          paragraphs |-> <<[content |-> ""]>>]
PageC == [pageNumber |-> 3,
          lines |-> <<LineNoPoly, LineShort, LineFlat>>,
          words |-> <<Word(3, "d"), Word(4, "e")>>,
          paragraphs |-> <<[text |-> "de"], [content |-> ""], [content |-> "f"]>>]
PageD == [pageNumber |-> 4, unit |-> "inch"]

SamplePages == {PageA, PageB, PageC, PageD}

\* the sequences of at most n elements of S
RECURSIVE SeqsUpTo(_, _)
SeqsUpTo(S, n) ==
    IF n = 0 THEN {<<>>}
    ELSE LET shorter == SeqsUpTo(S, n - 1)
         IN  shorter \cup {Append(s, x) : s \in shorter, x \in S}

\* a pair whose JSON parses to data, and one whose JSON does not parse
Doc(data)  == [valid |-> TRUE, data |-> data]
DocInvalid == [valid |-> FALSE]

NoKeys          == [key \in {} |-> <<>>]
AnalyzeDict(d)  == [isdict |-> TRUE, d |-> d]
AnalyzeNotDict  == [isdict |-> FALSE]

\* the documents a batch of several pairs is drawn from
Corpus ==
    { DocInvalid,
      Doc([pages |-> <<PageA>>]),
      Doc([analyzeResult |-> AnalyzeDict([pages |-> <<PageB>>])]),
      Doc([readResults |-> <<PageC>>]),
      Doc([pages |-> <<>>]),
      Doc([pages |-> <<PageC, PageD>>]) }

\* every document of at most MaxPages sample pages
PagedDocs == {Doc([pages |-> ps]) : ps \in SeqsUpTo(SamplePages, MaxPages)}

Batches == SeqsUpTo(Corpus, MaxDocs) \cup {<<d>> : d \in PagedDocs}

\* every container shape of the OCR JSON
Opt(key, values) == {NoKeys} \cup {key :> v : v \in values}
PageLists == {<<>>, <<PageA>>, <<PageB, PageC>>}
OtherLists == {<<>>, <<PageC>>, <<PageD, PageA>>}
Shapes ==
    { a @@ b @@ c :
        a \in Opt("pages", PageLists),
        b \in Opt("analyzeResult",
                  {AnalyzeNotDict} \cup {AnalyzeDict(d) : d \in Opt("pages", OtherLists)}),
        c \in Opt("readResults", PageLists) }

\* a batch of two documents pooling a lines of height 10 and b lines of
\* height 20, in either order
RepLine(line, n) == [j \in 1..n |-> line]
PoolDoc(line, n) == Doc([pages |-> <<[pageNumber |-> 1, lines |-> RepLine(line, n)]>>])
PoolCounts == {0, 1, 2, 5, 10, 90}
PoolBatches ==
    UNION { { <<PoolDoc(LineSmall, a), PoolDoc(LineTall, b)>>,
              <<PoolDoc(LineTall, b), PoolDoc(LineSmall, a)>> } :
            a \in PoolCounts, b \in PoolCounts }

(***************************************************************************)
(* Document handles.  A fitz document is a record of its state and its     *)
(* pages; a page of the rebuilt document is the sequence of insert_text    *)
(* calls made on it (images are not tracked).  Python tests a document     *)
(* for truth through its __len__, the page count.                          *)
(***************************************************************************)
NoDoc          == [state |-> "none", pages |-> <<>>]
OpenDoc(pages) == [state |-> "open", pages |-> pages]
Blank(n)       == [j \in 1..n |-> <<>>]
Truthy(doc)    == doc.state # "none" /\ Len(doc.pages) > 0
\* "if doc: doc.close()"
CloseIfTruthy(doc) == IF Truthy(doc) THEN [doc EXCEPT !.state = "closed"] ELSE doc
\* doc.save(...): an I/O failure raises, and so does saving a document of no pages
SaveOk(doc, io_ok) == io_ok /\ Len(doc.pages) > 0
NotSaved       == [saved |-> FALSE, pages |-> <<>>]
Saved(doc)     == [saved |-> TRUE, pages |-> doc.pages]

FrameReset ==
    /\ original_doc' = NoDoc
    /\ clean_base_doc' = NoDoc
    /\ exc' = FALSE
    /\ pages_data' = <<>>
    /\ scale_factor' = 1
    /\ i' = 0
    /\ main_text_lines' = <<>>
    /\ content_chunks' = <<>>
    /\ out_pdf' = NotSaved
    /\ out_rag' = <<>>

\* files of remove_ocr_textlayer.py: what a path holds
Absent         == [kind |-> "absent", pages |-> <<>>]
Original       == [kind |-> "original", pages |-> <<>>]
Stale          == [kind |-> "stale", pages |-> <<>>]
Partial        == [kind |-> "partial", pages |-> <<>>]
Rebuilt(pages) == [kind |-> "rebuilt", pages |-> pages]

RbIdle ==
    /\ rb_pc = "idle"
    /\ create_backup = FALSE
    /\ fs_pdf = Absent
    /\ fs_bak = Absent
    /\ fs_tmp = Absent
    /\ rb_original_doc = NoDoc
    /\ rb_new_doc = NoDoc
    /\ rb_outcome = "none"

(***************************************************************************)
(* Initial states: main() of remove_furigana.py is about to run in some    *)
(* environment.                                                            *)
(***************************************************************************)
InitOver(batches) ==
    /\ input_dir_exists \in BOOLEAN
    /\ dir_pairs \in IF input_dir_exists THEN batches ELSE {<<>>}
    /\ user_choice \in {"y", "n"}
    /\ font_path_given \in BOOLEAN
    /\ font_is_file \in BOOLEAN
    /\ pc = "start"
    /\ file_pairs = <<>>
    /\ all_lines = <<>>
    /\ global_height_cutoff = 0
    /\ k = 0
    /\ exit_code = -1
    /\ exit_reason = "none"
    /\ started = {}
    /\ failed = {}
    /\ stage = "idle"
    /\ height_cutoff = 0
    /\ original_doc = NoDoc
    /\ clean_base_doc = NoDoc
    /\ exc = FALSE
    /\ pages_data = <<>>
    /\ scale_factor = 1
    /\ i = 0
    /\ main_text_lines = <<>>
    /\ content_chunks = <<>>
    /\ out_pdf = NotSaved
    /\ out_rag = <<>>
    /\ RbIdle

Init       == InitOver(Batches)
InitShapes == InitOver({<<Doc(d)>> : d \in Shapes})
InitPool   == InitOver(PoolBatches)

(***************************************************************************)
(* main() of remove_furigana.py.                                           *)
(***************************************************************************)
Exit(code, reason) ==
    /\ pc' = "exit"
    /\ exit_code' = code
    /\ exit_reason' = reason

\* lines 136-146 and 189-190: the prompt, the pairing, the mode
MainStart ==
    /\ pc = "start"
    /\ file_pairs' = IF input_dir_exists THEN dir_pairs ELSE <<>>
    /\ IF file_pairs' = <<>>
       THEN Exit(0, "no_pairs") /\ k' = k
       ELSE /\ pc' = IF user_choice = "y" THEN "font" ELSE "process"
            /\ k' = 1
            /\ UNCHANGED <<exit_code, exit_reason>>
    /\ UNCHANGED <<envVars, all_lines, global_height_cutoff, started, failed,
                   frameVars, rbVars>>

\* lines 148-157
MainFont ==
    /\ pc = "font"
    /\ IF font_is_file
       THEN /\ pc' = "analyze"
            /\ k' = 1
            /\ UNCHANGED <<exit_code, exit_reason>>
       ELSE /\ Exit(1, IF font_path_given THEN "font_arg" ELSE "font_default")
            /\ k' = k
    /\ UNCHANGED <<envVars, file_pairs, all_lines, global_height_cutoff, started,
                   failed, frameVars, rbVars>>

\* lines 159-166: one iteration of the analysis loop
MainAnalyze ==
    /\ pc = "analyze"
    /\ k <= Len(file_pairs)
    /\ LET pair == file_pairs[k]
           pages == IF pair.valid THEN get_pages_from_json(pair.data) ELSE <<>>
       IN  all_lines' = all_lines \o
               Concat([j \in 1..Len(pages) |-> Get(pages[j], "lines", <<>>)])
    /\ k' = k + 1
    /\ UNCHANGED <<envVars, pc, file_pairs, global_height_cutoff, exit_code,
                   exit_reason, started, failed, frameVars, rbVars>>

\* lines 168-181
MainCalibrate ==
    /\ pc = "analyze"
    /\ k > Len(file_pairs)
    /\ IF all_lines = <<>>
       THEN /\ Exit(1, "no_lines")
            /\ UNCHANGED <<global_height_cutoff, k>>
       ELSE /\ global_height_cutoff' = Calibrate(all_lines)
            /\ pc' = "process"
            /\ k' = 1
            /\ UNCHANGED <<exit_code, exit_reason>>
    /\ UNCHANGED <<envVars, file_pairs, all_lines, started, failed, frameVars, rbVars>>

\* lines 183-187 and 191-194: the call for the next pair
MainCall ==
    /\ pc = "process"
    /\ stage = "idle"
    /\ k <= Len(file_pairs)
    /\ started' = started \cup {k}
    /\ FrameReset
    /\ height_cutoff' = global_height_cutoff
    /\ stage' = IF user_choice = "y" THEN "s1_begin" ELSE "g_load"
    /\ UNCHANGED <<envVars, pc, file_pairs, all_lines, global_height_cutoff, k,
                   exit_code, exit_reason, failed, rbVars>>

\* the call returned: the loop goes on to the next pair
MainReturn ==
    /\ pc = "process"
    /\ stage = "returned"
    /\ stage' = "idle"
    /\ k' = k + 1
    /\ UNCHANGED <<envVars, pc, file_pairs, all_lines, global_height_cutoff,
                   exit_code, exit_reason, started, failed, rbVars,
                   height_cutoff, original_doc, clean_base_doc, exc, pages_data,
                   scale_factor, i, main_text_lines, content_chunks, out_pdf, out_rag>>

\* line 187: nothing in main() catches what process_full_workflow raises;
\* the interpreter prints the traceback and exits with status 1
MainUncaught ==
    /\ pc = "process"
    /\ stage = "raised"
    /\ stage' = "idle"
    /\ Exit(1, "uncaught")
    /\ UNCHANGED <<envVars, file_pairs, all_lines, global_height_cutoff, k,
                   started, failed, rbVars,
                   height_cutoff, original_doc, clean_base_doc, exc, pages_data,
                   scale_factor, i, main_text_lines, content_chunks, out_pdf, out_rag>>

\* lines 196-197
MainDone ==
    /\ pc = "process"
    /\ stage = "idle"
    /\ k > Len(file_pairs)
    /\ Exit(0, "complete")
    /\ UNCHANGED <<envVars, file_pairs, all_lines, global_height_cutoff, k,
                   started, failed, frameVars, rbVars>>

(***************************************************************************)
(* process_full_workflow.                                                  *)
(***************************************************************************)
mainFrameUnchanged ==
    UNCHANGED <<envVars, pc, file_pairs, all_lines, global_height_cutoff, k,
                exit_code, exit_reason, started, rbVars, height_cutoff>>

\* lines 44-46: the empty document is created, then the original is opened;
\* n = -1 is fitz.open raising, otherwise the original has n pages
PFW_Open ==
    /\ stage = "s1_begin"
    /\ clean_base_doc' = OpenDoc(<<>>)
    /\ \E n \in -1..MaxPdfPages :
         IF n = -1
         THEN exc' = TRUE /\ original_doc' = original_doc /\ stage' = "s1_finally"
         ELSE exc' = FALSE /\ original_doc' = OpenDoc(Blank(n)) /\ stage' = "s1_loop"
    /\ mainFrameUnchanged
    /\ UNCHANGED <<failed, pages_data, scale_factor, i, main_text_lines,
                   content_chunks, out_pdf, out_rag>>

\* lines 47-51: the rebuild loop; it completes (j = n), or the image calls
\* raise on page j + 1, whose blank page has been created by then
PFW_Rebuild ==
    /\ stage = "s1_loop"
    /\ \E j \in 0..Len(original_doc.pages) :
         IF j = Len(original_doc.pages)
         THEN exc' = FALSE /\ clean_base_doc' = OpenDoc(Blank(j))
         ELSE exc' = TRUE /\ clean_base_doc' = OpenDoc(Blank(j + 1))
    /\ stage' = "s1_finally"
    /\ mainFrameUnchanged
    /\ UNCHANGED <<failed, original_doc, pages_data, scale_factor, i,
                   main_text_lines, content_chunks, out_pdf, out_rag>>

\* lines 52-53: finally of Stage 1; an exception then leaves the function
PFW_Finally1 ==
    /\ stage = "s1_finally"
    /\ original_doc' = CloseIfTruthy(original_doc)
    /\ stage' = IF exc THEN "raised" ELSE "s2_load"
    /\ failed' = IF exc THEN failed \cup {k} ELSE failed
    /\ mainFrameUnchanged
    /\ UNCHANGED <<clean_base_doc, exc, pages_data, scale_factor, i,
                   main_text_lines, content_chunks, out_pdf, out_rag>>

\* lines 58-66: load the OCR JSON; no pages: save the image-only PDF and return
PFW_Load ==
    /\ stage = "s2_load"
    /\ LET pair == file_pairs[k]
           pages == IF pair.valid THEN get_pages_from_json(pair.data) ELSE <<>>
       IN  \E io_ok \in BOOLEAN :
             IF ~pair.valid
             THEN /\ exc' = TRUE
                  /\ stage' = "s2_finally"
                  /\ UNCHANGED <<pages_data, scale_factor, i, content_chunks, out_pdf>>
             ELSE IF pages = <<>>
             THEN /\ exc' = ~SaveOk(clean_base_doc, io_ok)
                  /\ out_pdf' = IF SaveOk(clean_base_doc, io_ok)
                                THEN Saved(clean_base_doc) ELSE out_pdf
                  /\ stage' = "s2_finally"
                  /\ UNCHANGED <<pages_data, scale_factor, i, content_chunks>>
             ELSE /\ pages_data' = pages
                  /\ scale_factor' = ScaleFactor(pages)
                  /\ content_chunks' = <<>>
                  /\ i' = 1
                  /\ stage' = "s2_pages"
                  /\ UNCHANGED <<exc, out_pdf>>
    /\ mainFrameUnchanged
    /\ UNCHANGED <<failed, original_doc, clean_base_doc, main_text_lines, out_rag>>

\* lines 68-89: one iteration of the page loop, or its end (line 70 or the
\* end of pages_data); the fitz calls of an iteration (insert_font,
\* insert_text) may raise, which leaves the loop for the finally
PFW_Page ==
    /\ stage = "s2_pages"
    /\ \E fitz_ok \in BOOLEAN :
         IF i > Len(pages_data) \/ i > Len(clean_base_doc.pages)
         THEN /\ stage' = "s2_save"
              /\ UNCHANGED <<i, main_text_lines, content_chunks, clean_base_doc, exc>>
         ELSE IF ~fitz_ok
         THEN /\ exc' = TRUE
              /\ stage' = "s2_finally"
              /\ UNCHANGED <<i, main_text_lines, content_chunks, clean_base_doc>>
         ELSE LET page_data == pages_data[i]
                  lines == MainTextLines(page_data, height_cutoff)
              IN  /\ main_text_lines' = lines
                  /\ content_chunks' = AppendChunk(content_chunks,
                         page_data["pageNumber"], i, PageTextForRag(lines))
                  /\ clean_base_doc' = [clean_base_doc EXCEPT
                         !.pages[i] = @ \o PageInserts(page_data, lines, scale_factor)]
                  /\ i' = i + 1
                  /\ stage' = stage
                  /\ exc' = exc
    /\ mainFrameUnchanged
    /\ UNCHANGED <<failed, original_doc, pages_data, scale_factor, out_pdf, out_rag>>

\* lines 91-96: save the PDF, then the RAG JSON when there are chunks
PFW_Save ==
    /\ stage = "s2_save"
    /\ \E pdf_ok \in BOOLEAN, rag_ok \in BOOLEAN :
         IF ~SaveOk(clean_base_doc, pdf_ok)
         THEN exc' = TRUE /\ UNCHANGED <<out_pdf, out_rag>>
         ELSE /\ out_pdf' = Saved(clean_base_doc)
              /\ IF content_chunks = <<>> THEN exc' = FALSE /\ out_rag' = out_rag
                 ELSE IF rag_ok THEN exc' = FALSE /\ out_rag' = content_chunks
                 ELSE exc' = TRUE /\ out_rag' = out_rag
    /\ stage' = "s2_finally"
    /\ mainFrameUnchanged
    /\ UNCHANGED <<failed, original_doc, clean_base_doc, pages_data, scale_factor,
                   i, main_text_lines, content_chunks>>

\* lines 98-99: finally of Stage 2
PFW_Finally2 ==
    /\ stage = "s2_finally"
    /\ clean_base_doc' = CloseIfTruthy(clean_base_doc)
    /\ stage' = IF exc THEN "raised" ELSE "returned"
    /\ failed' = IF exc THEN failed \cup {k} ELSE failed
    /\ mainFrameUnchanged
    /\ UNCHANGED <<original_doc, exc, pages_data, scale_factor, i,
                   main_text_lines, content_chunks, out_pdf, out_rag>>

(***************************************************************************)
(* generate_rag_json_only.  Every exception is caught at lines 119-120,    *)
(* so the function always returns.                                         *)
(***************************************************************************)
\* lines 105-109
GRJ_Load ==
    /\ stage = "g_load"
    /\ LET pair == file_pairs[k]
           pages == IF pair.valid THEN get_pages_from_json(pair.data) ELSE <<>>
       IN  IF ~pair.valid
           THEN /\ failed' = failed \cup {k}
                /\ stage' = "returned"
                /\ UNCHANGED <<pages_data, content_chunks, i>>
           ELSE IF pages = <<>>
           THEN /\ stage' = "returned"
                /\ UNCHANGED <<failed, pages_data, content_chunks, i>>
           ELSE /\ pages_data' = pages
                /\ content_chunks' = <<>>
                /\ i' = 1
                /\ stage' = "g_pages"
                /\ failed' = failed
    /\ mainFrameUnchanged
    /\ UNCHANGED <<original_doc, clean_base_doc, exc, scale_factor,
                   main_text_lines, out_pdf, out_rag>>

\* lines 110-113: one iteration of the page loop, or its end
GRJ_Page ==
    /\ stage = "g_pages"
    /\ IF i > Len(pages_data)
       THEN stage' = "g_save" /\ UNCHANGED <<i, content_chunks>>
       ELSE /\ content_chunks' = AppendParaChunk(content_chunks, pages_data[i], i)
            /\ i' = i + 1
            /\ stage' = stage
    /\ mainFrameUnchanged
    /\ UNCHANGED <<failed, original_doc, clean_base_doc, exc, pages_data,
                   scale_factor, main_text_lines, out_pdf, out_rag>>

\* lines 115-120: write the RAG JSON when there are chunks; a failure is caught
GRJ_Save ==
    /\ stage = "g_save"
    /\ \E rag_ok \in BOOLEAN :
         IF content_chunks = <<>> THEN UNCHANGED <<out_rag, failed>>
         ELSE IF rag_ok THEN out_rag' = content_chunks /\ failed' = failed
         ELSE out_rag' = out_rag /\ failed' = failed \cup {k}
    /\ stage' = "returned"
    /\ mainFrameUnchanged
    /\ UNCHANGED <<original_doc, clean_base_doc, exc, pages_data, scale_factor, i,
                   main_text_lines, content_chunks, out_pdf>>

Next ==
    \/ MainStart
    \/ MainFont
    \/ MainAnalyze
    \/ MainCalibrate
    \/ MainCall
    \/ MainReturn
    \/ MainUncaught
    \/ MainDone
    \/ PFW_Open
    \/ PFW_Rebuild
    \/ PFW_Finally1
    \/ PFW_Load
    \/ PFW_Page
    \/ PFW_Save
    \/ PFW_Finally2
    \/ GRJ_Load
    \/ GRJ_Page
    \/ GRJ_Save

Spec       == Init /\ [][Next]_vars
SpecShapes == InitShapes /\ [][Next]_vars
SpecPool   == InitPool /\ [][Next]_vars

(***************************************************************************)
(* rebuild_from_images of remove_ocr_textlayer.py, called on one path.     *)
(* pdf_path and the temporary file are in one directory, so shutil.move    *)
(* is a rename: it replaces the original at once or fails without effect.  *)
(***************************************************************************)
KeepFile(file) == file

\* "if temp_output_path.exists(): os.remove(temp_output_path)", lines 71, 83
RemoveIfExists(file) == Absent

InitRebuild ==
    /\ rb_pc = "call"
    /\ create_backup \in BOOLEAN
    /\ fs_pdf \in {Absent, Original}
    /\ fs_bak \in {Absent, Stale}
    /\ fs_tmp \in {Absent, Stale}
    /\ rb_original_doc = NoDoc
    /\ rb_new_doc = NoDoc
    /\ rb_outcome = "none"
    /\ input_dir_exists = TRUE
    /\ dir_pairs = <<>>
    /\ user_choice = "n"
    /\ font_path_given = FALSE
    /\ font_is_file = FALSE
    /\ pc = "idle"
    /\ file_pairs = <<>>
    /\ all_lines = <<>>
    /\ global_height_cutoff = 0
    /\ k = 0
    /\ exit_code = -1
    /\ exit_reason = "none"
    /\ started = {}
    /\ failed = {}
    /\ stage = "idle"
    /\ height_cutoff = 0
    /\ original_doc = NoDoc
    /\ clean_base_doc = NoDoc
    /\ exc = FALSE
    /\ pages_data = <<>>
    /\ scale_factor = 1
    /\ i = 0
    /\ main_text_lines = <<>>
    /\ content_chunks = <<>>
    /\ out_pdf = NotSaved
    /\ out_rag = <<>>

rbOthersUnchanged == UNCHANGED <<envVars, mainVars, frameVars, create_backup>>

\* lines 19-30: the is_file test, then the backup copy when asked for; a
\* failing copy raises out of the function and may leave a partial backup
RB_Enter ==
    /\ rb_pc = "call"
    /\ \E copy_ok \in BOOLEAN :
         IF fs_pdf = Absent
         THEN rb_outcome' = "skip" /\ rb_pc' = "done" /\ fs_bak' = fs_bak
         ELSE IF ~create_backup
         THEN rb_outcome' = rb_outcome /\ rb_pc' = "open" /\ fs_bak' = fs_bak
         ELSE IF copy_ok
         THEN rb_outcome' = rb_outcome /\ rb_pc' = "open" /\ fs_bak' = fs_pdf
         ELSE rb_outcome' = "backup_raised" /\ rb_pc' = "done" /\ fs_bak' = Partial
    /\ rbOthersUnchanged
    /\ UNCHANGED <<fs_pdf, fs_tmp, rb_original_doc, rb_new_doc>>

\* lines 33-34; n = -1 is fitz.open raising
RB_Open ==
    /\ rb_pc = "open"
    /\ \E n \in -1..MaxPdfPages :
         IF n = -1
         THEN rb_pc' = "except" /\ UNCHANGED <<rb_original_doc, rb_new_doc>>
         ELSE /\ rb_original_doc' = OpenDoc(Blank(n))
              /\ rb_new_doc' = OpenDoc(<<>>)
              /\ rb_pc' = "loop"
    /\ rbOthersUnchanged
    /\ UNCHANGED <<fs_pdf, fs_bak, fs_tmp, rb_outcome>>

\* lines 36-64: one page.  "full": every image copied; "blank": no image on
\* the page; "lossy": an image could not be processed and was skipped with a
\* warning (lines 63-64); "raise": an exception outside the inner try
RB_Page ==
    /\ rb_pc = "loop"
    /\ Len(rb_new_doc.pages) < Len(rb_original_doc.pages)
    /\ \E o \in {"full", "blank", "lossy", "raise"} :
         /\ rb_new_doc' = [rb_new_doc EXCEPT
                !.pages = Append(@, IF o = "raise" THEN "blank" ELSE o)]
         /\ rb_pc' = IF o = "raise" THEN "except" ELSE "loop"
    /\ rbOthersUnchanged
    /\ UNCHANGED <<fs_pdf, fs_bak, fs_tmp, rb_original_doc, rb_outcome>>

\* lines 66-67: save to the temporary file; a failing save leaves the
\* temporary path as it was, or holding a partial file
RB_Save ==
    /\ rb_pc = "loop"
    /\ Len(rb_new_doc.pages) = Len(rb_original_doc.pages)
    /\ \E o \in {"ok", "fail_before_write", "fail_partial"} :
         IF SaveOk(rb_new_doc, o = "ok")
         THEN fs_tmp' = Rebuilt(rb_new_doc.pages) /\ rb_pc' = "finally"
         ELSE /\ fs_tmp' = IF o = "fail_partial" THEN Partial ELSE fs_tmp
              /\ rb_pc' = "except"
    /\ rbOthersUnchanged
    /\ UNCHANGED <<fs_pdf, fs_bak, rb_original_doc, rb_new_doc, rb_outcome>>

\* lines 69-72: the handler removes the temporary file and returns
RB_Except ==
    /\ rb_pc = "except"
    /\ fs_tmp' = RemoveIfExists(fs_tmp)
    /\ rb_outcome' = "error"
    /\ rb_pc' = "finally"
    /\ rbOthersUnchanged
    /\ UNCHANGED <<fs_pdf, fs_bak, rb_original_doc, rb_new_doc>>

\* lines 73-75
RB_Finally ==
    /\ rb_pc = "finally"
    /\ rb_original_doc' = CloseIfTruthy(rb_original_doc)
    /\ rb_new_doc' = CloseIfTruthy(rb_new_doc)
    /\ rb_pc' = IF rb_outcome = "error" THEN "done" ELSE "move"
    /\ rbOthersUnchanged
    /\ UNCHANGED <<fs_pdf, fs_bak, fs_tmp, rb_outcome>>

\* lines 77-83: the move, and its handler
RB_Move ==
    /\ rb_pc = "move"
    /\ \E move_ok \in BOOLEAN :
         IF move_ok
         THEN fs_pdf' = fs_tmp /\ fs_tmp' = Absent /\ rb_outcome' = "success"
         ELSE /\ fs_pdf' = fs_pdf
              /\ fs_tmp' = RemoveIfExists(fs_tmp)
              /\ rb_outcome' = "move_failed"
    /\ rb_pc' = "done"
    /\ rbOthersUnchanged
    /\ UNCHANGED <<fs_bak, rb_original_doc, rb_new_doc>>

NextRebuild ==
    \/ RB_Enter
    \/ RB_Open
    \/ RB_Page
    \/ RB_Save
    \/ RB_Except
    \/ RB_Finally
    \/ RB_Move

SpecRebuild == InitRebuild /\ [][NextRebuild]_vars

(***************************************************************************)
(* Vocabulary of the properties.                                           *)
(***************************************************************************)
FullMode      == user_choice = "y"
AllPairs      == 1..Len(file_pairs)
\* the pages the page loop of the current call has processed so far (i is
\* 0 from the call until the loop starts and stays put after the loop)
PagesDone      == 1..(i - 1)
ProcessedPages == IF FullMode THEN PagesDone ELSE {}
SeqRange(s)   == {s[n] : n \in 1..Len(s)}
HeightOf(line) == get_polygon_height(get_item_poly(line))
PageLines(page_data) == Get(page_data, "lines", <<>>)
PageWords(page_data) == Get(page_data, "words", <<>>)

(***************************************************************************)
(* C1.  In a batch run in either mode, an error raised while processing    *)
(* one document does not keep the remaining documents from being           *)
(* attempted: when main() has ended after some document failed, the        *)
(* processing of every pair of the batch has been started.                 *)
(***************************************************************************)
C1_BatchContinuesAfterError ==
    (pc = "exit" /\ failed # {}) => started = AllPairs

(***************************************************************************)
(* C2.  When process_full_workflow has returned or raised, neither the     *)
(* original document nor the rebuilt document is still open.               *)
(***************************************************************************)
C2_HandlesClosedOnEveryExit ==
    (FullMode /\ stage \in {"returned", "raised"}) =>
        /\ original_doc.state # "open"
        /\ clean_base_doc.state # "open"

(***************************************************************************)
(* C3.  For pooled heights of 90 values of 10 and 10 values of 20:         *)
(*  as claimed: the cutoff is 14, lines of height 10 are excluded and      *)
(*              lines of height 20 retained;                               *)
(*  as amended: the 90th percentile is 11 (linear interpolation at index   *)
(*              89.1), the cutoff is 7.7, and lines of height 10 and of    *)
(*              height 20 are both retained as main text.                  *)
(***************************************************************************)
CountOfHeight(h) == Cardinality({n \in 1..Len(all_lines) : HeightOf(all_lines[n]) = h})
Pool90x10And10x20 ==
    /\ FullMode
    /\ pc = "process"
    /\ Len(all_lines) = 100
    /\ CountOfHeight(10) = 90
    /\ CountOfHeight(20) = 10
\* a page of the batch has just been classified
PageClassified == FullMode /\ i > 1

\* C3 as stated: cutoff 14, height 10 excluded, height 20 retained
C3_CutoffIs14 ==
    Pool90x10And10x20 =>
        /\ global_height_cutoff = 14 * Scale
        /\ PageClassified =>
             main_text_lines =
                 SelectSeq(PageLines(pages_data[i - 1]), LAMBDA l : HeightOf(l) = 20)

\* C3 as amended: cutoff 7.7, every line of the pool retained
C3_CutoffIs7_7 ==
    Pool90x10And10x20 =>
        /\ global_height_cutoff * 10 = 77 * Scale
        /\ stage # "idle" => height_cutoff = global_height_cutoff
        /\ PageClassified => main_text_lines = PageLines(pages_data[i - 1])

C3_Witness ==
    /\ Pool90x10And10x20
    /\ PageClassified
    /\ \E l \in SeqRange(main_text_lines) : HeightOf(l) = 10

(***************************************************************************)
(* C4.  Every word inserted on a page is placed at the 4th point of its    *)
(* polygon multiplied by 72 when that page's own unit is "inch" and by 1   *)
(* otherwise, on every page of the document.                               *)
(***************************************************************************)
OwnScale(page_data) == IF Get(page_data, "unit", "") = "inch" THEN 72 ELSE 1

\* C4: each insert point is the word's 4th polygon point times its own page's scale
C4_WordsScaledByOwnPageUnit ==
    \A j \in ProcessedPages :
        \A ins \in SeqRange(clean_base_doc.pages[j]) :
            LET poly == get_item_poly(PageWords(pages_data[j])[ins.word])
                f    == OwnScale(pages_data[j])
            IN  ins.point = <<poly[7] * f, poly[8] * f>>

(***************************************************************************)
(* C5.  get_pages_from_json returns the first non-empty of pages,          *)
(* analyzeResult.pages and readResults, or the empty sequence.             *)
(***************************************************************************)
FirstNonEmpty(data) ==
    LET p == Get(data, "pages", <<>>)
        a == IF "analyzeResult" \in DOMAIN data /\ data["analyzeResult"].isdict
             THEN Get(data["analyzeResult"].d, "pages", <<>>) ELSE <<>>
        r == Get(data, "readResults", <<>>)
    IN  IF p # <<>> THEN p ELSE IF a # <<>> THEN a ELSE r

\* the load step of the current call has applied get_pages_from_json
PagesLoaded ==
    /\ pc = "process"
    /\ file_pairs[k].valid
    /\ \/ stage \in {"s2_pages", "s2_save", "g_pages", "g_save"}
       \/ ~FullMode /\ stage = "returned"

\* C5: the loaded pages are the first non-empty container
C5_FirstNonEmptyContainer ==
    PagesLoaded => pages_data = FirstNonEmpty(file_pairs[k].data)

(***************************************************************************)
(* C6.  On every processed page the words inserted into the text layer     *)
(* are exactly the words of the page that have a polygon and a text and    *)
(* whose span start s satisfies offset <= s < offset + length for some     *)
(* span of some line of height >= cutoff; each is inserted with its text.  *)
(***************************************************************************)
HasPolyAndText(word) == get_item_poly(word) # <<>> /\ get_item_text(word) # ""
CoveredByMainLine(word, page_data) ==
    \E line \in SeqRange(PageLines(page_data)) :
        /\ HeightOf(line) * Scale >= height_cutoff
        /\ \E sp \in SeqRange(Get(line, "spans", <<>>)) :
               /\ sp.offset <= WordStart(word)
               /\ WordStart(word) < sp.offset + sp.length
ExpectedWords(page_data) ==
    {w \in 1..Len(PageWords(page_data)) :
        /\ HasPolyAndText(PageWords(page_data)[w])
        /\ CoveredByMainLine(PageWords(page_data)[w], page_data)}

\* C6: inserted words = words with polygon and text covered by a main-text span
C6_TextLayerWordsExact ==
    \A j \in ProcessedPages :
        /\ {ins.word : ins \in SeqRange(clean_base_doc.pages[j])}
               = ExpectedWords(pages_data[j])
        /\ \A ins \in SeqRange(clean_base_doc.pages[j]) :
               ins.text = get_item_text(PageWords(pages_data[j])[ins.word])

\* a processed page with an inserted word, a word skipped for lack of a
\* polygon inside a main-text span, and a word of a below-cutoff line
C6_Witness ==
    \E j \in ProcessedPages :
        LET words == PageWords(pages_data[j])
        IN  /\ clean_base_doc.pages[j] # <<>>
            /\ \E w \in 1..Len(words) :
                   /\ get_item_poly(words[w]) = <<>>
                   /\ CoveredByMainLine(words[w], pages_data[j])
            /\ \E w \in 1..Len(words) :
                   /\ HasPolyAndText(words[w])
                   /\ WordStart(words[w]) >= 0
                   /\ ~CoveredByMainLine(words[w], pages_data[j])

(***************************************************************************)
(* C7.  In both modes content_chunks holds at most one chunk per OCR page, *)
(* in page order, every chunk has non-empty content, and a processed page  *)
(* has a chunk exactly when it has retained text.                          *)
(***************************************************************************)
HasRetainedText(page_data) ==
    IF FullMode
    THEN \E line \in SeqRange(PageLines(page_data)) :
             HeightOf(line) * Scale >= height_cutoff /\ get_item_text(line) # ""
    ELSE \E para \in SeqRange(Get(page_data, "paragraphs", <<>>)) :
             get_item_text(para) # ""

\* C7: non-empty chunks, in page order, one per page with retained text
C7_ChunksNonEmptyOnePerPage ==
    /\ \A n \in 1..Len(content_chunks) :
           /\ content_chunks[n].content # ""
           /\ content_chunks[n].idx \in PagesDone
    /\ \A m, n \in 1..Len(content_chunks) :
           m < n => content_chunks[m].idx < content_chunks[n].idx
    /\ \A j \in PagesDone :
           (\E n \in 1..Len(content_chunks) : content_chunks[n].idx = j)
               <=> HasRetainedText(pages_data[j])

\* a chunk was produced and a processed page contributed none
C7_Witness ==
    /\ content_chunks # <<>>
    /\ \E j \in PagesDone : ~HasRetainedText(pages_data[j])

(***************************************************************************)
(* C8.  main() ends with exit code 1 when the font file is missing in      *)
(* full mode or the input directory is missing, and with 0 otherwise.      *)
(***************************************************************************)
C8_ExitCodes ==
    pc = "exit" =>
        IF (FullMode /\ ~font_is_file) \/ ~input_dir_exists
        THEN exit_code = 1
        ELSE exit_code = 0

(***************************************************************************)
(* C9.  In full mode, when the pooled lines are non-empty and none has a   *)
(* positive height, calibration does not abort, the cutoff is 0, every     *)
(* call of process_full_workflow receives that cutoff, and every line of   *)
(* every processed page is classified as main text.                        *)
(***************************************************************************)
Calibrated ==
    /\ FullMode
    /\ \/ pc = "process"
       \/ pc = "exit" /\ exit_reason \in {"no_lines", "uncaught", "complete"}
NoPositiveHeight ==
    /\ all_lines # <<>>
    /\ \A line \in SeqRange(all_lines) : HeightOf(line) <= 0

\* C9: no positive height: no abort, cutoff 0, every line is main text
C9_DegenerateHeightsKeepEverything ==
    (Calibrated /\ NoPositiveHeight) =>
        /\ exit_reason # "no_lines"
        /\ global_height_cutoff = 0
        /\ stage # "idle" => height_cutoff = 0
        /\ PageClassified => main_text_lines = PageLines(pages_data[i - 1])

\* the second document of a degenerate batch has had a page of lines
\* without a usable polygon classified
C9_Witness ==
    /\ Calibrated
    /\ NoPositiveHeight
    /\ k = 2
    /\ PageClassified
    /\ \E line \in SeqRange(main_text_lines) : get_item_poly(line) = <<>>

(***************************************************************************)
(* C10.  rebuild_from_images replaces the original only with a rebuilt     *)
(* document that was saved completely to the temporary file; when the      *)
(* function reports a failure of opening, rebuilding, saving or moving,    *)
(* the original is unchanged and no temporary file remains; and with       *)
(* create_backup the backup holds the original before the original can be  *)
(* modified.                                                               *)
(***************************************************************************)
C10_ReplaceOnlyAfterCompleteSave ==
    /\ fs_pdf.kind \in {"absent", "original", "rebuilt"}
    /\ fs_pdf.kind = "rebuilt" =>
           /\ rb_outcome = "success"
           /\ fs_pdf = Rebuilt(rb_new_doc.pages)
           /\ Len(fs_pdf.pages) = Len(rb_original_doc.pages)
    /\ (rb_pc = "done" /\ rb_outcome \in {"error", "move_failed"}) =>
           fs_pdf = Original /\ fs_tmp = Absent
    /\ (create_backup /\ rb_pc \in {"open", "loop", "except", "finally", "move"}) =>
           fs_bak = Original /\ fs_pdf = Original
    /\ (create_backup /\ fs_pdf.kind = "rebuilt") => fs_bak = Original

\* a backed-up run whose save had written the temporary file and whose move
\* then failed
C10_Witness ==
    /\ rb_pc = "done"
    /\ rb_outcome = "move_failed"
    /\ create_backup
    /\ Len(rb_new_doc.pages) > 0

====
